---- MODULE Spec2Model ----
(***************************************************************************)
(* The plate scanner of src/app.js (class PlateScanner): camera lifecycle, *)
(* scan timer, OCR worker set-up, capture cycles, uploads and booking      *)
(* lookups, as a state machine over the browser's event loop.  Every       *)
(* action is one run-to-completion piece of a handler: the code between    *)
(* two awaits, together with the microtasks it queues.                     *)
(***************************************************************************)
EXTENDS Integers, Sequences, FiniteSets, Bags, TLC

(***************************************************************************)
(* Bounds of the model: the calls suspended at one time, the streams live  *)
(* at one time and the workers created in one run.                         *)
(***************************************************************************)
MaxStarts == 1
MaxOverlap == 2
MaxCycles == 2
MaxUploads == 1
MaxLookups == 1
MaxStreams == 2
MaxWorkers == 2
MaxRace == 2
MaxTickets == 2
MaxListeners == 5

(***************************************************************************)
(* Texts.  A string is a sequence of one-character strings.                *)
(***************************************************************************)
\* null as a text: a sequence that holds no character
NullText == <<"null">>

\* null as a plate: no plate is empty
NoPlate == <<>>

UpperLetters ==
    <<"A","B","C","D","E","F","G","H","I","J","K","L","M",
      "N","O","P","Q","R","S","T","U","V","W","X","Y","Z">>

LowerLetters ==
    <<"a","b","c","d","e","f","g","h","i","j","k","l","m",
      "n","o","p","q","r","s","t","u","v","w","x","y","z">>

DigitChars == {"0","1","2","3","4","5","6","7","8","9"}

LetterChars == {UpperLetters[i] : i \in 1..26}

\* /\s/ on a cleaned text: the only white space left is the blank
IsSpace(c) == c = " "

\* String.prototype.toUpperCase, one character
ToUpperChar(c) ==
    IF \E i \in 1..26 : LowerLetters[i] = c
    THEN UpperLetters[CHOOSE i \in 1..26 : LowerLetters[i] = c]
    ELSE c

\* String.prototype.toUpperCase
ToUpperCase(s) == [i \in 1..Len(s) |-> ToUpperChar(s[i])]

NewlineToSpace(c) == IF c = "\n" THEN " " ELSE c

KeptChar(c) == c \in LetterChars \cup DigitChars \cup {" "}

\* the letter O left as it is
KeepO(c) == c

OToZero(c) == IF c = "O" THEN "0" ELSE c

\* the cleaning chain of normalisePlate
CleanText(text) ==
    LET upper == ToUpperCase(text)
        spaced == [i \in 1..Len(upper) |-> NewlineToSpace(upper[i])]
        kept == SelectSeq(spaced, KeptChar)
    IN  [i \in 1..Len(kept) |-> OToZero(kept[i])]

NotSpace(c) == ~IsSpace(c)

\* the match text left with its white space
KeepSpaces(s) == s

\* replace(/\s/g, '') on a cleaned text
StripSpaces(s) == SelectSeq(s, NotSpace)

\* \w of a cleaned text
IsWord(c) == c \in LetterChars \cup DigitChars

\* \b between positions i-1 and i of t (1-based; i in 1..Len(t)+1)
Boundary(t, i) ==
    LET before == i > 1 /\ IsWord(t[i - 1])
        after  == i <= Len(t) /\ IsWord(t[i])
    IN  before # after

\* the length of the longest run of characters of class cls that starts at i
Run(t, i, cls) ==
    LET runs == {k \in 0..(Len(t) + 1 - i) : \A j \in i..(i + k - 1) : t[j] \in cls}
    IN  CHOOSE k \in runs : \A m \in runs : m <= k

\* Ends of the matches of  cls{lo,hi}  at i, longest first (greedy).
Reps(t, i, cls, lo, hi) ==
    LET r == Run(t, i, cls)
        m == IF r < hi THEN r ELSE hi
    IN  [k \in 1..(IF m >= lo THEN m - lo + 1 ELSE 0) |-> i + m - k + 1]

\* Ends of the matches of  \s  at i: the blank is not optional
OneSpace(t, i) ==
    IF i <= Len(t) /\ IsSpace(t[i]) THEN <<i + 1>> ELSE <<>>

\* Ends of the matches of  \s?  at i, the blank taken first (greedy).
OptSpace(t, i) ==
    IF i <= Len(t) /\ IsSpace(t[i]) THEN <<i + 1, i>> ELSE <<i>>

\* The first element of the sequence ends that is not 0; 0 when there is
\* none.  The matcher tries its alternatives in order and keeps the first
\* that leads to a match.
FirstOf(ends) ==
    LET ok == {k \in 1..Len(ends) : ends[k] # 0}
    IN  IF ok = {} THEN 0
        ELSE ends[CHOOSE k \in ok : \A j \in ok : k <= j]

\* the two patterns in the other order
UK_REGEXESReversed ==
    << [l1 |-> 1, h1 |-> 3, l2 |-> 1, h2 |-> 4, l3 |-> 1, h3 |-> 3],
       [l1 |-> 2, h1 |-> 2, l2 |-> 2, h2 |-> 2, l3 |-> 3, h3 |-> 3] >>

\* the cherished pattern with at most three digits
UK_REGEXESNarrow ==
    << [l1 |-> 2, h1 |-> 2, l2 |-> 2, h2 |-> 2, l3 |-> 3, h3 |-> 3],
       [l1 |-> 1, h1 |-> 3, l2 |-> 1, h2 |-> 3, l3 |-> 1, h3 |-> 3] >>

\* A plate pattern  \b([A-Z]{l1,h1}\d{l2,h2}\s?[A-Z]{l3,h3})\b
UK_REGEXES ==
    << [l1 |-> 2, h1 |-> 2, l2 |-> 2, h2 |-> 2, l3 |-> 3, h3 |-> 3],
       [l1 |-> 1, h1 |-> 3, l2 |-> 1, h2 |-> 4, l3 |-> 1, h3 |-> 3] >>

\* The end (exclusive) of the match of pattern re that starts at i, 0 if none.
MatchAt(t, i, re) ==
    IF ~Boundary(t, i) THEN 0
    ELSE LET as == Reps(t, i, LetterChars, re.l1, re.h1)
         IN  FirstOf([ka \in 1..Len(as) |->
               LET bs == Reps(t, as[ka], DigitChars, re.l2, re.h2)
               IN  FirstOf([kb \in 1..Len(bs) |->
                     LET cs == OptSpace(t, bs[kb])
                     IN  FirstOf([kc \in 1..Len(cs) |->
                           LET ds == Reps(t, cs[kc], LetterChars, re.l3, re.h3)
                           IN  FirstOf([kd \in 1..Len(ds) |->
                                 IF Boundary(t, ds[kd]) THEN ds[kd] ELSE 0])])])])

\* String.prototype.matchAll with a global pattern: the matches left to
\* right, each search resuming where the last match ended (from[i] is the
\* matches from position i on); every match mapped to its text without
\* white space.
MatchAll(t, re) ==
    LET from[i \in 1..(Len(t) + 1)] ==
            IF i > Len(t) THEN <<>>
            ELSE LET e == MatchAt(t, i, re)
                 IN  IF e = 0 THEN from[i + 1]
                     ELSE <<StripSpaces(SubSeq(t, i, e - 1))>> \o from[e]
    IN  from[1]

Abs(n) == IF n < 0 THEN -n ELSE n

\* the first match, unsorted
FirstMatch(matches) == matches[1]

\* matches.sort((a, b) => |7 - a.length| - |7 - b.length|)[0]: the sort is
\* stable, so the first of the matches closest to 7 characters.
Best(matches) ==
    LET d(k) == Abs(7 - Len(matches[k]))
        k0 == CHOOSE k \in 1..Len(matches) :
                 /\ \A j \in 1..Len(matches) : d(k) <= d(j)
                 /\ \A j \in 1..(k - 1) : d(j) > d(k)
    IN  matches[k0]

\* the loop left after the first pattern
FirstPatternOnly(t) ==
    IF MatchAll(t, UK_REGEXES[1]) = <<>> THEN NoPlate
    ELSE Best(MatchAll(t, UK_REGEXES[1]))

\* the loop over UK_REGEXES: the best match of the first pattern that has one
FirstPattern(t) ==
    LET hits == {k \in 1..Len(UK_REGEXES) : MatchAll(t, UK_REGEXES[k]) # <<>>}
    IN  IF hits = {} THEN NoPlate
        ELSE Best(MatchAll(t, UK_REGEXES[CHOOSE k \in hits : \A j \in hits : k <= j]))

normalisePlate(text) ==
    IF text = NullText \/ text = <<>> THEN NoPlate
    ELSE FirstPattern(CleanText(text))

\* plate.replace(/(.{2})(.{2})(.{3})/, '$1$2 $3'): a blank after the fourth
\* of the first seven characters; a shorter text is left as it is
FormatPlate(p) ==
    IF Len(p) >= 7 THEN SubSeq(p, 1, 4) \o <<" ">> \o SubSeq(p, 5, Len(p)) ELSE p

(***************************************************************************)
(* Inputs of the environment.                                              *)
(***************************************************************************)
\* what the OCR engine reads on a frame or an uploaded image
OCRTexts ==
    { <<"A","B","1","2"," ","C","D","E">>,
      <<"x"," ","A","1"," ","R","E","Z">>,
      <<"b","a","d">> }

\* confidences the OCR engine reports (0..100)
Confidences == {0, 30, 44, 45, 46, 70, 100}

OCRData == [text : OCRTexts, confidence : Confidences]

\* The value of a numeric input: empty, a text that is no number, or a number.
EmptyInput == [kind |-> "empty", n |-> 0]

NonNumeric == [kind |-> "nonnumeric", n |-> 0]

Num(n) == [kind |-> "number", n |-> n]

\* an input that the step did not read
NoInput == [kind |-> "none", n |-> 0]

\* Number(value) || dflt: Number("") is 0 and Number of a non-numeric text
\* is NaN, both falsy
NumberOr(value, dflt) ==
    IF value.kind = "number" /\ value.n # 0 THEN value.n ELSE dflt

\* values of the confidence input
ConfidenceValues == {EmptyInput, NonNumeric, Num(0), Num(30), Num(45), Num(70)}

\* the inputs of the specification of the whole scanner: a plate read with
\* high or low confidence, or no plate; the confidence input left empty
ScanData ==
    { [text |-> <<"A","B","1","2"," ","C","D","E">>, confidence |-> 100],
      [text |-> <<"A","B","1","2"," ","C","D","E">>, confidence |-> 30],
      [text |-> <<"b","a","d">>, confidence |-> 100] }

ScanConfidenceValues == {EmptyInput}

\* outcomes of navigator.mediaDevices.getUserMedia
\* the texts of the OCR results of the model
ScanTexts == {data.text : data \in OCRData \cup ScanData}

GumOutcomes == {"ok", "NotAllowedError", "NotFoundError", "OtherError"}

(***************************************************************************)
(* State.                                                                  *)
(***************************************************************************)
VARIABLES
    secure,            \* window.isSecureContext
    hasMedia,          \* 'mediaDevices' in navigator
    stream,            \* this.stream: 0 for null, else the id of a stream
    live,              \* the streams acquired whose tracks are not stopped
    timer,             \* this.timer: 0 for null, else a timer id (kept after firing)
    pending,           \* the timers armed that have neither fired nor been cleared
    worker,            \* this.worker: 0 for null, else a worker id
    created,           \* the number of OCR workers created so far
    ready,             \* the workers whose initialize('eng') has completed
    delays,            \* the delay, in ms, that each pending timer was armed with
    autoCapture,       \* this.autoCapture.checked
    intervalEl,        \* this.intervalEl.value
    startBtnDisabled,  \* this.startBtn.disabled
    stopBtnDisabled,   \* this.stopBtn.disabled
    lastPlateEl,       \* this.lastPlateEl.textContent
    bookingBox,        \* what this.bookingBox shows
    starts,            \* the startCamera calls suspended at an await (a bag)
    cycles,            \* the captureAndRead calls suspended at recognize (a bag)
    uploads,           \* the file-input handlers suspended at an await (a bag)
    lookups,           \* the lookupByReg calls suspended at an await (a bag)
    plates,            \* normalisePlate on the OCR texts of the model, tabulated
    tested,            \* the last text given to normalisePlate by a self test, and the result
    stopped,           \* history: stopCamera ran on a busy scanner and no start was asked since
    out,               \* history: the step just taken, the calls it made, what it read
    tickets,           \* AppState.tickets of the complaints desk, newest first
    activeTicketId,    \* AppState.activeTicketId
    currentTab,        \* AppState.currentTab
    clickListeners,    \* the 'click' listeners registered on #tickets-list
    deskOut            \* history: the desk handler just run and what it notified

\* the state of the plate scanner
scanner == << secure, hasMedia, stream, live, timer, pending, delays, worker, created,
              ready, autoCapture, intervalEl, tested, startBtnDisabled, stopBtnDisabled, lastPlateEl, bookingBox,
              starts, cycles, uploads, lookups, plates, stopped, out >>

\* the state of the complaints desk
desk == << tickets, activeTicketId, currentTab, clickListeners, deskOut >>

vars == << scanner, desk >>

\* what no step of the scanner changes: the browser's environment, the
\* table of the plate normaliser (a pure function), the self test and the
\* complaints desk, which shares the page but no state with the scanner
env == << secure, hasMedia, plates, tested, desk >>

\* One step's record: the piece of code run, the history mark of the
\* suspended call it resumed (FALSE for an event handler), the
\* side-effecting calls it made, and the OCR result and the value of the
\* confidence input it read (NoData, NoInput when it read none).
Out(op, mark, calls, data, conf) ==
    [op |-> op, mark |-> mark, calls |-> calls, data |-> data, conf |-> conf]

NoData == [text |-> NullText, confidence |-> 0]

\* the calls a step makes: a log line, an alert, a call of a method or of
\* the platform, an assignment to a field or to the display
Log(msg) == <<"log", msg>>

Alert(msg) == <<"alert", msg>>

Call(f) == <<"call", f>>

Assign(x) == <<"assign", x>>

\* what an awaited fetch settled with
Settled(outcome) == <<"settled", outcome>>

\* clearTimeout on a timer that was still pending
Cancelled == <<"cancel", "timer">>

\* derived states of the controller
Starting == starts # EmptyBag
Running == stream # 0 /\ starts = EmptyBag
Idle == stream = 0 /\ starts = EmptyBag

\* the bag b with task t replaced by task u
Replace(b, t, u) == (b (-) SetToBag({t})) (+) SetToBag({u})

Remove(b, t) == b (-) SetToBag({t})

Add(b, t) == b (+) SetToBag({t})

Copies(b, t) == IF t \in DOMAIN b THEN b[t] ELSE 0

\* every task of bag b marked as overtaken by a stop
MarkStale(b) ==
    [v \in {[t EXCEPT !.stale = TRUE] : t \in DOMAIN b} |->
        Copies(b, v) + Copies(b, [v EXCEPT !.stale = FALSE])]

\* the lookups of bag b that a capture cycle started marked as overtaken
MarkStaleLookups(b) ==
    [v \in {[t EXCEPT !.stale = (t.stale \/ t.src = "cycle")] : t \in DOMAIN b} |->
        IF v.src = "cycle"
        THEN Copies(b, v) + Copies(b, [v EXCEPT !.stale = FALSE])
        ELSE Copies(b, v)]

(***************************************************************************)
(* The complaints desk: the ticket store.                                  *)
(***************************************************************************)
\* an optional value: undefined, or a string
Undefined == << >>

Some(v) == << v >>

\* !x of a string or undefined
Falsy(x) == x = Undefined \/ x = Some("")

\* ticket.admin.outcome: undefined until a handler creates it (the solution
\* text, the false-claim flag and the liability box are left out of it)
NoOutcome == [defined |-> FALSE, decision |-> "", rejectReason |-> Undefined]

\* the ticket of initializeSeedData, by the fields the desk's handlers test
seedTicket ==
    [id |-> "T-1001", status |-> "Triage", outcome |-> NoOutcome,
     audit |-> << <<"Ticket created">> >>]

\* the ticket of createTicketFromComplaint
createTicketFromComplaint(id) ==
    [id |-> id, status |-> "New", outcome |-> NoOutcome,
     audit |-> << <<"Ticket created via portal">> >>]

\* Utils.generateTicketId draws 'T-1000' .. 'T-9999': two of them
TicketIds == {"T-1001", "T-4821"}

\* the statuses of the status buttons, the values typed into the reject
\* reason, the tabs
Statuses == {"Investigating", "Resolved", "Rejected"}

ReasonValues == {"", "No fault found"}

Tabs == {"portal", "desk", "reports"}

\* tickets.findIndex(t => t.id === ticketId): 0 for -1
FindIndex(list, ticketId) ==
    IF \E i \in 1..Len(list) : list[i].id = ticketId
    THEN CHOOSE i \in 1..Len(list) :
             /\ list[i].id = ticketId
             /\ \A j \in 1..(i - 1) : list[j].id # ticketId
    ELSE 0

\* activeTicket.admin.outcome?.rejectReason
OutcomeRejectReason(ticket) ==
    IF ticket.outcome.defined THEN ticket.outcome.rejectReason ELSE Undefined

\* getFilteredTickets with the search box left empty
getFilteredTickets(list) == list

\* renderTicketsList: the number of click listeners on the list's container
\* after a render that found n of them.  A render of an empty list returns
\* before it adds one; a keydown listener is added with every click listener.
renderTicketsList(list, n) ==
    IF Len(getFilteredTickets(list)) = 0 THEN n ELSE n + 1

\* one step's record of the desk: the handler run and the number of calls
\* of the activeTicketId subscriber it caused
DeskOut(op, notified) == [op |-> op, notified |-> notified]

Init ==
    /\ secure \in BOOLEAN
    /\ hasMedia \in BOOLEAN
    /\ stream = 0
    /\ live = {}
    /\ timer = 0
    /\ pending = {}
    /\ delays = [id \in {} |-> 0]
    /\ intervalEl = EmptyInput
    /\ tested = [text |-> NullText, plate |-> NoPlate]
    /\ worker = 0
    /\ created = 0
    /\ ready = {}
    /\ autoCapture \in BOOLEAN
    /\ startBtnDisabled = FALSE
    /\ stopBtnDisabled = TRUE
    /\ lastPlateEl = <<>>
    /\ bookingBox = [kind |-> "none", reg |-> <<>>]
    /\ starts = EmptyBag
    /\ cycles = EmptyBag
    /\ uploads = EmptyBag
    /\ lookups = EmptyBag
    /\ plates = [text \in ScanTexts |-> normalisePlate(text)]
    /\ stopped = FALSE
    /\ out = Out("init", FALSE, {}, NoData, NoInput)
    /\ tickets = << seedTicket >>
    /\ activeTicketId = seedTicket.id
    /\ currentTab = "portal"
    /\ clickListeners = 0
    /\ deskOut = DeskOut("constructor", 0)

(***************************************************************************)
(* scheduleScan and stopCamera.                                            *)
(***************************************************************************)
\* a timer id that no pending timer has
FreshTimer(p) == CHOOSE i \in 1..(Cardinality(p) + 1) :
                    i \notin p /\ \A j \in 1..(i - 1) : j \in p

\* scheduleScan with the clearTimeout left out
ScheduleScanNoClear(t, p) ==
    LET id == FreshTimer(p)
    IN  [timer |-> id, pending |-> p \cup {id}]

\* scheduleScan on this.timer = t with the timers p pending: the new
\* this.timer and the new pending timers
ScheduleScan(t, p) ==
    LET p1 == IF t # 0 THEN p \ {t} ELSE p
        id == FreshTimer(p1)
    IN  [timer |-> id, pending |-> p1 \cup {id}]

\* A value of the interval input from 2^31 up to 2^32 - 1, which is more
\* than the integers of the model hold.
Overlong == [kind |-> "overlong", n |-> 0]

\* values of the interval input
IntervalValues ==
    {EmptyInput, NonNumeric, Num(0), Num(-5), Num(299), Num(300), Num(301),
     Num(2000), Overlong}

\* the value the interval input keeps while the scanner is exercised
ScanIntervalValues == {EmptyInput}

Max(a, b) == IF a >= b THEN a ELSE b

\* Math.max(300, Number(this.intervalEl.value) || 1500): the milliseconds,
\* or over for an overlong value (the larger of the two)
Interval(value) ==
    IF value.kind = "overlong"
    THEN [over |-> TRUE, ms |-> 0]
    ELSE [over |-> FALSE, ms |-> Max(300, NumberOr(value, 1500))]

\* setTimeout(handler, interval): the delay the timer is armed with.  The
\* platform converts the argument to a 32-bit signed integer, so that a
\* value from 2^31 up to 2^32 - 1 becomes negative, and takes a negative
\* delay as 0.
TimeoutDelay(interval) == IF interval.over THEN 0 ELSE interval.ms

\* the delays of the pending timers r.pending once scheduleScan has armed
\* r.timer with the interval input holding value
Armed(r, value) ==
    [id \in r.pending |->
        IF id = r.timer THEN TimeoutDelay(Interval(value)) ELSE delays[id]]

\* the delays of the timers p that stay pending
Kept(p) == [id \in p |-> delays[id]]

\* the calls of scheduleScan, with the cancellation when its clearTimeout
\* hits a timer still pending
ScheduleCalls ==
    {Call("scheduleScan")} \cup (IF timer \in pending THEN {Cancelled} ELSE {})

\* the showEnvWarnings call: a log line when the environment has an issue
EnvWarnCalls == IF ~secure \/ ~hasMedia THEN {Log("Environment warning")} ELSE {}

\* the fields stopCamera reads and writes
Fields ==
    [timer |-> timer, pending |-> pending, stream |-> stream, live |-> live,
     startBtnDisabled |-> startBtnDisabled, stopBtnDisabled |-> stopBtnDisabled]

\* stopCamera with a stop button that is toggled instead of disabled
stopCameraToggle(s) ==
    [timer |-> 0,
     pending |-> IF s.timer # 0 THEN s.pending \ {s.timer} ELSE s.pending,
     stream |-> 0,
     live |-> IF s.stream # 0 THEN s.live \ {s.stream} ELSE s.live,
     startBtnDisabled |-> FALSE,
     stopBtnDisabled |-> ~s.stopBtnDisabled]

\* stopCamera as a function of the fields it touches
stopCamera(s) ==
    [timer |-> 0,
     pending |-> IF s.timer # 0 THEN s.pending \ {s.timer} ELSE s.pending,
     stream |-> 0,
     live |-> IF s.stream # 0 THEN s.live \ {s.stream} ELSE s.live,
     startBtnDisabled |-> FALSE,
     stopBtnDisabled |-> TRUE]

\* what stopCamera calls besides the log
StopCalls ==
    (IF timer # 0 THEN {Call("clearTimeout")} ELSE {})
        \cup (IF stream # 0 THEN {Call("track.stop")} ELSE {})
        \cup {Log("Camera stopped")}

\* the effect of stopCamera on the scanner's fields (the history is the caller's)
StopCameraEffect ==
    /\ timer' = stopCamera(Fields).timer
    /\ pending' = stopCamera(Fields).pending
    /\ delays' = Kept(pending')
    /\ stream' = stopCamera(Fields).stream
    /\ live' = stopCamera(Fields).live
    /\ startBtnDisabled' = stopCamera(Fields).startBtnDisabled
    /\ stopBtnDisabled' = stopCamera(Fields).stopBtnDisabled
    /\ cycles' = MarkStale(cycles)
    /\ lookups' = MarkStaleLookups(lookups)

\* the call of startCamera up to its first await (updatePermissionState)
NewStart == [pc |-> "perm", w |-> 0, dup |-> ~Idle]

(***************************************************************************)
(* UI events.                                                              *)
(***************************************************************************)
\* startBtn click: startCamera()
StartClick ==
    /\ ~startBtnDisabled
    /\ starts' = Add(starts, NewStart)
    /\ stopped' = FALSE
    /\ out' = Out("startCamera", FALSE, EnvWarnCalls, NoData, NoInput)
    /\ UNCHANGED << env, stream, live, timer, pending, delays, worker, created, ready,
                    autoCapture, intervalEl, startBtnDisabled, stopBtnDisabled, lastPlateEl,
                    bookingBox, cycles, uploads, lookups >>

\* stopBtn click: stopCamera()
StopClick ==
    /\ ~stopBtnDisabled
    /\ StopCameraEffect
    /\ UNCHANGED starts
    /\ stopped' = (stopped \/ ~Idle)
    /\ out' = Out("stopCamera", FALSE, StopCalls, NoData, NoInput)
    /\ UNCHANGED << env, worker, created, ready, autoCapture, intervalEl, lastPlateEl,
                    bookingBox, uploads >>

\* cameraSelect change: with a stream held, stopCamera() then startCamera()
CameraSelectChange ==
    /\ IF stream # 0
       THEN /\ StopCameraEffect
            /\ starts' = Add(starts, [NewStart EXCEPT !.dup = starts # EmptyBag])
            /\ out' = Out("cameraSelectChange", FALSE,
                          {Log("Camera stopped")} \cup EnvWarnCalls, NoData, NoInput)
       ELSE /\ out' = Out("cameraSelectChange", FALSE, {}, NoData, NoInput)
            /\ UNCHANGED << stream, live, timer, pending, delays, startBtnDisabled,
                            stopBtnDisabled, starts, cycles, lookups >>
    /\ stopped' = (stopped /\ stream = 0)
    /\ UNCHANGED << env, worker, created, ready, autoCapture, intervalEl, lastPlateEl,
                    bookingBox, uploads >>

\* interval change to value: re-arm when this.timer is set
IntervalChangeTo(value) ==
    /\ intervalEl' = value
    /\ IF timer # 0
       THEN /\ timer' = ScheduleScan(timer, pending).timer
            /\ pending' = ScheduleScan(timer, pending).pending
            /\ delays' = Armed(ScheduleScan(timer, pending), value)
            /\ out' = Out("intervalChange", FALSE, ScheduleCalls, NoData, NoInput)
       ELSE /\ out' = Out("intervalChange", FALSE, {}, NoData, NoInput)
            /\ UNCHANGED << timer, pending, delays >>
    /\ UNCHANGED << env, stream, live, worker, created, ready, autoCapture,
                    startBtnDisabled, stopBtnDisabled, lastPlateEl, bookingBox,
                    starts, cycles, uploads, lookups, stopped >>

\* interval change with the scanner exercised
IntervalChange == \E value \in ScanIntervalValues : IntervalChangeTo(value)

\* autoCapture change that leaves the timer alone when the box is cleared
AutoCaptureChangeNoCancel ==
    /\ autoCapture' = ~autoCapture
    /\ IF autoCapture'
       THEN /\ timer' = ScheduleScan(timer, pending).timer
            /\ pending' = ScheduleScan(timer, pending).pending
            /\ delays' = Armed(ScheduleScan(timer, pending), intervalEl)
            /\ out' = Out("autoCaptureChange", FALSE, ScheduleCalls, NoData, NoInput)
       ELSE /\ out' = Out("autoCaptureChange", FALSE, {}, NoData, NoInput)
            /\ UNCHANGED << timer, pending, delays >>
    /\ UNCHANGED << env, stream, live, worker, created, ready, intervalEl,
                    startBtnDisabled, stopBtnDisabled, lastPlateEl, bookingBox,
                    starts, cycles, uploads, lookups, stopped >>

\* autoCapture change: the box has just been toggled
AutoCaptureChange ==
    /\ autoCapture' = ~autoCapture
    /\ IF autoCapture'
       THEN /\ timer' = ScheduleScan(timer, pending).timer
            /\ pending' = ScheduleScan(timer, pending).pending
            /\ delays' = Armed(ScheduleScan(timer, pending), intervalEl)
            /\ out' = Out("autoCaptureChange", FALSE, ScheduleCalls, NoData, NoInput)
       ELSE /\ timer' = 0
            /\ pending' = IF timer # 0 THEN pending \ {timer} ELSE pending
            /\ delays' = Kept(pending')
            /\ out' = Out("autoCaptureChange", FALSE,
                          IF timer \in pending THEN {Cancelled} ELSE {}, NoData, NoInput)
    /\ UNCHANGED << env, stream, live, worker, created, ready, intervalEl,
                    startBtnDisabled, stopBtnDisabled, lastPlateEl, bookingBox,
                    starts, cycles, uploads, lookups, stopped >>

(***************************************************************************)
(* startCamera, one action per await.                                      *)
(***************************************************************************)
\* the catch block of startCamera: a log line and an alert
CatchCalls(name) ==
    CASE name = "NotAllowedError" -> {Log("Camera permission denied"), Alert("permission denied")}
      [] name = "NotFoundError"   -> {Log("No camera device found"), Alert("not found")}
      [] OTHER                    -> {Log("Camera failed"), Alert("Camera failed")}

\* the scheduleScan at the end of a successful start
ArmIfAuto(t) ==
    IF autoCapture
    THEN /\ timer' = ScheduleScan(timer, pending).timer
         /\ pending' = ScheduleScan(timer, pending).pending
         /\ delays' = Armed(ScheduleScan(timer, pending), intervalEl)
    ELSE UNCHANGED << timer, pending, delays >>

ArmCalls == IF autoCapture THEN ScheduleCalls ELSE {}

\* updatePermissionState has resolved: the two environment checks, then listCameras
StartPerm(t) ==
    /\ t.pc = "perm"
    /\ IF ~secure
       THEN /\ starts' = Remove(starts, t)
            /\ out' = Out("startCamera.insecure", t.dup, {Alert("insecure")}, NoData, NoInput)
       ELSE IF ~hasMedia
       THEN /\ starts' = Remove(starts, t)
            /\ out' = Out("startCamera.unsupported", t.dup, {Alert("unsupported")}, NoData, NoInput)
       ELSE /\ starts' = Replace(starts, t, [t EXCEPT !.pc = "list"])
            /\ out' = Out("startCamera.perm", t.dup, {Call("listCameras")}, NoData, NoInput)
    /\ UNCHANGED << env, stream, live, timer, pending, delays, worker, created, ready,
                    autoCapture, intervalEl, startBtnDisabled, stopBtnDisabled, lastPlateEl,
                    bookingBox, cycles, uploads, lookups, stopped >>

\* listCameras has resolved: getUserMedia is called
StartList(t) ==
    /\ t.pc = "list"
    /\ starts' = Replace(starts, t, [t EXCEPT !.pc = "gum"])
    /\ out' = Out("startCamera.list", t.dup, {Call("getUserMedia")}, NoData, NoInput)
    /\ UNCHANGED << env, stream, live, timer, pending, delays, worker, created, ready,
                    autoCapture, intervalEl, startBtnDisabled, stopBtnDisabled, lastPlateEl,
                    bookingBox, cycles, uploads, lookups, stopped >>

\* a stream id that no live stream has
FreshStream == CHOOSE i \in 1..(Cardinality(live) + 1) :
                  i \notin live /\ \A j \in 1..(i - 1) : j \in live

\* getUserMedia has settled: this.stream is assigned and video.play() called,
\* or the catch block runs
StartGum(t, outcome) ==
    /\ t.pc = "gum"
    /\ IF outcome = "ok"
       THEN /\ stream' = FreshStream
            /\ live' = live \cup {FreshStream}
            /\ starts' = Replace(starts, t, [t EXCEPT !.pc = "play"])
            /\ out' = Out("startCamera.gum", t.dup, {Assign("stream"), Call("play")}, NoData, NoInput)
       ELSE /\ starts' = Remove(starts, t)
            /\ out' = Out("startCamera.catch", t.dup, CatchCalls(outcome), NoData, NoInput)
            /\ UNCHANGED << stream, live >>
    /\ UNCHANGED << env, timer, pending, delays, worker, created, ready,
                    autoCapture, intervalEl, startBtnDisabled, stopBtnDisabled, lastPlateEl,
                    bookingBox, cycles, uploads, lookups, stopped >>

\* video.play() has settled: the buttons are switched, then the worker is
\* created when this.worker is null, else the timer armed
StartPlay(t, ok) ==
    /\ t.pc = "play"
    /\ IF ok
       THEN /\ startBtnDisabled' = TRUE
            /\ stopBtnDisabled' = FALSE
            /\ IF worker = 0
               THEN /\ starts' = Replace(starts, t, [t EXCEPT !.pc = "create"])
                    /\ out' = Out("startCamera.play", t.dup,
                                  {Log("Camera started"), Call("createWorker")}, NoData, NoInput)
                    /\ UNCHANGED << timer, pending, delays >>
               ELSE /\ starts' = Remove(starts, t)
                    /\ ArmIfAuto(t)
                    /\ out' = Out("startCamera.done", t.dup,
                                  {Log("Camera started")} \cup ArmCalls, NoData, NoInput)
       ELSE /\ starts' = Remove(starts, t)
            /\ out' = Out("startCamera.catch", t.dup, CatchCalls("OtherError"), NoData, NoInput)
            /\ UNCHANGED << timer, pending, delays, startBtnDisabled, stopBtnDisabled >>
    /\ UNCHANGED << env, stream, live, worker, created, ready, autoCapture, intervalEl,
                    lastPlateEl, bookingBox, cycles, uploads, lookups, stopped >>

\* Tesseract.createWorker has settled: this.worker is assigned and
\* loadLanguage called on it
StartCreate(t, ok) ==
    /\ t.pc = "create"
    /\ IF ok
       THEN /\ created' = created + 1
            /\ worker' = created + 1
            /\ starts' = Replace(starts, t, [t EXCEPT !.pc = "load"])
            /\ out' = Out("startCamera.create", t.dup, {Assign("worker"), Call("loadLanguage")}, NoData, NoInput)
       ELSE /\ starts' = Remove(starts, t)
            /\ out' = Out("startCamera.catch", t.dup, CatchCalls("OtherError"), NoData, NoInput)
            /\ UNCHANGED << worker, created >>
    /\ UNCHANGED << env, stream, live, timer, pending, delays, ready, autoCapture, intervalEl,
                    startBtnDisabled, stopBtnDisabled, lastPlateEl, bookingBox,
                    cycles, uploads, lookups, stopped >>

\* loadLanguage has settled: initialize is called on this.worker
StartLoad(t, ok) ==
    /\ t.pc = "load"
    /\ IF ok
       THEN /\ starts' = Replace(starts, t, [t EXCEPT !.pc = "init", !.w = worker])
            /\ out' = Out("startCamera.load", t.dup, {Call("initialize")}, NoData, NoInput)
       ELSE /\ starts' = Remove(starts, t)
            /\ out' = Out("startCamera.catch", t.dup, CatchCalls("OtherError"), NoData, NoInput)
    /\ UNCHANGED << env, stream, live, timer, pending, delays, worker, created, ready,
                    autoCapture, intervalEl, startBtnDisabled, stopBtnDisabled, lastPlateEl,
                    bookingBox, cycles, uploads, lookups, stopped >>

\* initialize has settled: the worker is ready and the timer armed
StartInit(t, ok) ==
    /\ t.pc = "init"
    /\ IF ok
       THEN /\ ready' = ready \cup {t.w}
            /\ starts' = Remove(starts, t)
            /\ ArmIfAuto(t)
            /\ out' = Out("startCamera.done", t.dup, {Log("OCR ready")} \cup ArmCalls, NoData, NoInput)
       ELSE /\ starts' = Remove(starts, t)
            /\ out' = Out("startCamera.catch", t.dup, CatchCalls("OtherError"), NoData, NoInput)
            /\ UNCHANGED << ready, timer, pending, delays >>
    /\ UNCHANGED << env, stream, live, worker, created, autoCapture, intervalEl,
                    startBtnDisabled, stopBtnDisabled, lastPlateEl, bookingBox,
                    cycles, uploads, lookups, stopped >>

(***************************************************************************)
(* handleOCRResult and lookupByReg.                                        *)
(***************************************************************************)
NotFoundBox(reg) == [kind |-> "notfound", reg |-> reg]

\* the booking box left as it is
SameBox == [kind |-> "same", reg |-> <<>>]

\* no suspended lookup
NoLookup == [pc |-> "none", reg |-> <<>>, src |-> "none", stale |-> FALSE]

FoundBox(reg) == [kind |-> "found", reg |-> reg]

\* validRegs of mockFetch with its last entry missing
validRegsShort ==
    { <<"A","B","1","2","C","D","E">>, <<"R","E","Z","1","2","3">>,
      <<"S","T","A","R","0","0","1">> }

\* validRegs of mockFetch
validRegs ==
    { <<"A","B","1","2","C","D","E">>, <<"R","E","Z","1","2","3">>,
      <<"S","T","A","R","0","0","1">>, <<"G","F","1","2","A","B","C">> }

\* found of mockFetch
MockFound(reg) == ToUpperCase(reg) \in validRegs

\* Math.round(data.confidence || 55), on the integers
Confidence(data) == IF data.confidence = 0 THEN 55 ELSE data.confidence

\* Number(this.confidenceEl.value) || 45
Threshold(conf) == NumberOr(conf, 45)

\* handleOCRResult(data) with conf in the confidence input, the plate that
\* normalisePlate(data.text) returns read from its table: the new text of
\* lastPlateEl (NoPlate: left alone), the calls made, the plate looked up
\* (NoPlate: none)
handleOCRResult(data, conf) ==
    LET plate == plates[data.text]
    IN  IF plate # NoPlate
        THEN IF Confidence(data) >= Threshold(conf)
             THEN [lastPlate |-> FormatPlate(plate),
                   calls |-> {Assign("lastPlate"), Log("Detected"), Call("lookupByReg")},
                   lookup |-> plate]
             ELSE [lastPlate |-> FormatPlate(plate),
                   calls |-> {Assign("lastPlate"), Log("Detected")},
                   lookup |-> NoPlate]
        ELSE [lastPlate |-> NoPlate, calls |-> {Log("No plate matched")},
              lookup |-> NoPlate]

\* lookupByReg(reg) up to its first await that takes a turn of the event
\* loop: the mock answers within the turn, so an unknown plate is shown as
\* not found at once and a known one waits for response.json(); the real
\* fetch is awaited.  src is the caller, mock is this.mockToggle.checked.
lookupByReg(reg, src, mock) ==
    IF mock /\ ~MockFound(reg)
    THEN [task |-> NoLookup, box |-> NotFoundBox(reg),
          calls |-> {Call("mockFetch"), Settled("non2xx"), Assign("bookingBox")}]
    ELSE [task |-> [pc |-> IF mock THEN "mockjson" ELSE "fetch", reg |-> reg,
                    src |-> src, stale |-> FALSE],
          box |-> SameBox,
          calls |-> {IF mock THEN Call("mockFetch") ELSE Call("fetch")}]

\* The display and lookup part of a step that handles OCR result data.
HandleResult(data, conf, src, mock) ==
    LET h == handleOCRResult(data, conf)
        l == lookupByReg(h.lookup, src, mock)
    IN  /\ lastPlateEl' = IF h.lastPlate # NoPlate THEN h.lastPlate ELSE lastPlateEl
        /\ IF h.lookup # NoPlate
           THEN /\ lookups' = IF l.task # NoLookup THEN Add(lookups, l.task) ELSE lookups
                /\ bookingBox' = IF l.box # SameBox THEN l.box ELSE bookingBox
           ELSE UNCHANGED << lookups, bookingBox >>

HandleCalls(data, conf, src, mock) ==
    LET h == handleOCRResult(data, conf)
    IN  h.calls \cup (IF h.lookup # NoPlate
                      THEN lookupByReg(h.lookup, src, mock).calls ELSE {})

\* the plate a step of lookupByReg asked for, as the data of its record
Asked(reg) == [text |-> reg, confidence |-> 0]

\* outcomes of fetch: a 2xx response, another response, a transport failure
FetchOutcomes == {"ok", "non2xx", "failed"}

\* control reaches the catch block with only a rejected fetch
ThrownOnReject(outcome) == outcome = "failed"

\* control reaches the catch block: fetch rejected, or response.ok is false
Thrown(outcome) == outcome # "ok"

\* fetch has settled: response.json() is awaited, or the catch block runs
LookupFetch(t, outcome) ==
    /\ t.pc = "fetch"
    /\ IF ~Thrown(outcome)
       THEN /\ lookups' = Replace(lookups, t, [t EXCEPT !.pc = "json"])
            /\ out' = Out("lookupByReg.fetch", t.stale, {Settled(outcome)},
                          Asked(t.reg), NoInput)
            /\ UNCHANGED bookingBox
       ELSE /\ lookups' = Remove(lookups, t)
            /\ bookingBox' = NotFoundBox(t.reg)
            /\ out' = Out("lookupByReg.catch", t.stale,
                          {Settled(outcome), Assign("bookingBox")},
                          Asked(t.reg), NoInput)
    /\ UNCHANGED << env, stream, live, timer, pending, delays, worker, created, ready,
                    autoCapture, intervalEl, startBtnDisabled, stopBtnDisabled, lastPlateEl,
                    starts, cycles, uploads, stopped >>

\* response.json() has settled: renderBooking(data), or the catch block.
\* The service answers a query with the booking of the plate asked for;
\* the mock's body always parses.
LookupJson(t, ok) ==
    /\ t.pc \in {"json", "mockjson"}
    /\ t.pc = "mockjson" => ok
    /\ lookups' = Remove(lookups, t)
    /\ IF ok
       THEN /\ bookingBox' = FoundBox(ToUpperCase(t.reg))
            /\ out' = Out(IF t.pc = "mockjson" THEN "lookupByReg.mockRender"
                                                ELSE "lookupByReg.render",
                          t.stale, {Assign("bookingBox")}, Asked(t.reg), NoInput)
       ELSE /\ bookingBox' = NotFoundBox(t.reg)
            /\ out' = Out("lookupByReg.catch", t.stale, {Assign("bookingBox")},
                          Asked(t.reg), NoInput)
    /\ UNCHANGED << env, stream, live, timer, pending, delays, worker, created, ready,
                    autoCapture, intervalEl, startBtnDisabled, stopBtnDisabled, lastPlateEl,
                    starts, cycles, uploads, stopped >>

(***************************************************************************)
(* The manual lookup.                                                      *)
(***************************************************************************)
\* \s, and the white space String.prototype.trim removes
IsWhiteSpace(c) == c \in {" ", "\t", "\n"}

NotWhiteSpace(c) == ~IsWhiteSpace(c)

\* String.prototype.trim
Trim(s) ==
    LET inked == {i \in 1..Len(s) : NotWhiteSpace(s[i])}
    IN  IF inked = {} THEN <<>>
        ELSE SubSeq(s, CHOOSE i \in inked : \A j \in inked : i <= j,
                       CHOOSE i \in inked : \A j \in inked : i >= j)

\* val of the lookup button's listener, without replace(/\s/g, '')
ManualValueUnstripped(text) == ToUpperCase(Trim(text))

\* val of the lookup button's listener
ManualValue(text) == SelectSeq(ToUpperCase(Trim(text)), NotWhiteSpace)

\* texts typed into the manual plate input
ManualTexts ==
    { <<>>, <<" ">>, <<" ", "\t", " ">>,
      <<"a","b","1","2"," ","c","d","e">>,
      <<" ","R","E","Z"," ","1","2","3"," ">>,
      <<"z","z","9","9","\t","z","z","z">>,
      <<"A","B","1","2","C","D","E">>,
      <<"s","t","a","r","0","0","1">>,
      <<"G","F","1","2"," ","A","B","C">>,
      <<"A","B","1","2","C","D">>,
      <<" ","n","o"," ","p","l","a","t","e","!"," "," ">>,
      <<"x">> }

\* lookupBtn click with text in the manual plate input
LookupClick(text, mock) ==
    /\ LET val == ManualValue(text)
           l == lookupByReg(val, "manual", mock)
       IN  IF val = <<>>
           THEN /\ out' = Out("lookupClick.return", FALSE, {}, Asked(text), NoInput)
                /\ UNCHANGED << lastPlateEl, lookups, bookingBox >>
           ELSE /\ lastPlateEl' = FormatPlate(val)
                /\ lookups' = IF l.task # NoLookup THEN Add(lookups, l.task) ELSE lookups
                /\ bookingBox' = IF l.box # SameBox THEN l.box ELSE bookingBox
                /\ out' = Out("lookupClick", FALSE,
                              {Assign("lastPlate"), Call("lookupByReg")} \cup l.calls,
                              Asked(text), NoInput)
    /\ UNCHANGED << env, stream, live, timer, pending, delays, worker, created, ready,
                    autoCapture, intervalEl, startBtnDisabled, stopBtnDisabled,
                    starts, cycles, uploads, stopped >>

(***************************************************************************)
(* The self test of the plate normaliser.                                  *)
(***************************************************************************)
\* the texts of the test cases of runTests, and texts around them
TestTexts ==
    { <<"b","a","d"," ","t","e","x","t"," ","n","o"," ","p","l","a","t","e">>,
      <<"A","B","1","2"," ","C","D","E">>,
      <<"a","b","1","2","c","d","e">>,
      <<"0","O","1","2"," ","C","D","E">>,
      <<"A","1"," ","R","E","Z">>,
      <<"S","T","A","R"," ","1">>,
      <<"G","F","1","2"," ","A","B","C"," ","p","a","r","k","e","d">>,
      <<"A","1","2","3"," ","B","C","D"," ","A","B","1","2"," ","C","D","E">>,
      <<"A","B","1","2"," ","C","O","D">>,
      <<"A","O","1","2"," ","C","D","E">>,
      <<"O","A","1","2"," ","C","D","E">>,
      <<"x","\t","A","B","1","2"," ","C","D","E">>,
      <<"A","B","1","2"," ","C","D","E",",","p","a","r","k","e","d">>,
      <<"a","b","1","2","c","d","e"," ","g","f","1","2"," ","a","b","c">>,
      <<"X","Y","-","1","2"," ","A","B","C"," ","a","b","1","2"," ","c","d","e">>,
      <<"n","o","."," ","z","z","9","9","z","z","z","!">>,
      <<"c","a","r","\n","A","B","1","2"," ","C","D","E"," ","7">>,
      <<"A","1"," ","R","E","Z"," ","A","1","2","3"," ","B","C","D">>,
      <<"A","1","2","3","4"," ","B","C","D"," ","A","B","1","2"," ","C","D">>,
      <<"A","B","1","2"," ","C","D"," ","A","1","2","3","4"," ","B","C","D">>,
      <<"A","1","2","3"," ","B","C","D"," ","B","4","5","6"," ","C","D","E">>,
      <<"a","b","c","1","2","3","4","x","y","z">>,
      <<"A","B","C","1","2","3","4"," ","X","Y","Z">>,
      <<"a","1","b">> }

\* what may stand before a plate in a text read
TextPrefixes ==
    { <<>>,
      <<"x"," ">>,
      <<"A","1"," ","R","E","Z"," ">> }

\* plates and near-plates as they are read
TextPlates ==
    { <<"A","B","1","2"," ","C","D","E">>,
      <<"a","b","1","2","c","d","e">>,
      <<"G","f","1","2"," ","a","B","c">>,
      <<"A","B","1","2"," "," ","C","D","E">>,
      <<"B","1","2"," ","C","D","E">> }

\* what may stand after a plate in a text read
TextSuffixes ==
    { <<>>,
      <<" ","p","a","r","k","e","d">>,
      <<"\n","A","1","2","3"," ","B","C","D">> }

\* the texts given to normalisePlate
NormTexts ==
    {NullText, <<>>} \cup TestTexts
        \cup {p \o m \o x : p \in TextPrefixes, m \in TextPlates, x \in TextSuffixes}

\* a test case of runTests: normalisePlate(text).  init() runs the self
\* test once, before any event is handled.
RunTest(text) ==
    /\ out.op = "init"
    /\ tested' = [text |-> text, plate |-> normalisePlate(text)]
    /\ out' = Out("runTests", FALSE, {Call("normalisePlate")}, NoData, NoInput)
    /\ UNCHANGED << secure, hasMedia, plates, stream, live, timer, pending, delays,
                    worker, created, ready, autoCapture, intervalEl, startBtnDisabled,
                    stopBtnDisabled, lastPlateEl, bookingBox, starts, cycles, uploads,
                    lookups, stopped, desk >>

\* normalisePlate on the plate it returned
RunTestAgain ==
    /\ tested.plate # NoPlate
    /\ tested' = [text |-> tested.plate, plate |-> normalisePlate(tested.plate)]
    /\ out' = Out("runTests.again", FALSE, {Call("normalisePlate")}, NoData, NoInput)
    /\ UNCHANGED << secure, hasMedia, plates, stream, live, timer, pending, delays,
                    worker, created, ready, autoCapture, intervalEl, startBtnDisabled,
                    stopBtnDisabled, lastPlateEl, bookingBox, starts, cycles, uploads,
                    lookups, stopped, desk >>

(***************************************************************************)
(* The scan timer and captureAndRead.                                      *)
(***************************************************************************)
\* timer id fires: captureAndRead() up to its await of recognize
TimerFire(id) ==
    /\ id \in pending
    /\ pending' = pending \ {id}
    /\ delays' = Kept(pending')
    /\ IF stream = 0 \/ worker = 0
       THEN /\ out' = Out("captureAndRead.return", FALSE, {}, NoData, NoInput)
            /\ UNCHANGED cycles
       ELSE /\ cycles' = Add(cycles, [pc |-> "ocr", stale |-> FALSE])
            /\ out' = Out("captureAndRead", FALSE, {Call("drawImage"), Call("recognize")}, NoData, NoInput)
    /\ UNCHANGED << env, stream, live, timer, worker, created, ready, autoCapture, intervalEl,
                    startBtnDisabled, stopBtnDisabled, lastPlateEl, bookingBox,
                    starts, uploads, lookups, stopped >>

\* recognize has resolved with data: handleOCRResult(data), then the
\* finally block
CycleResult(t, data, conf, mock) ==
    /\ t.pc = "ocr"
    /\ cycles' = Remove(cycles, t)
    /\ HandleResult(data, conf, "cycle", mock)
    /\ ArmIfAuto(t)
    /\ out' = Out("captureAndRead.result", t.stale,
                  HandleCalls(data, conf, "cycle", mock) \cup ArmCalls, data, conf)
    /\ UNCHANGED << env, stream, live, worker, created, ready, autoCapture, intervalEl,
                    startBtnDisabled, stopBtnDisabled, starts, uploads, stopped >>

\* the catch block of captureAndRead with no finally block after it
CycleErrorNoRearm(t) ==
    /\ t.pc = "ocr"
    /\ cycles' = Remove(cycles, t)
    /\ out' = Out("captureAndRead.catch", t.stale, {Log("OCR error")}, NoData, NoInput)
    /\ UNCHANGED << env, stream, live, timer, pending, delays, worker, created, ready,
                    autoCapture, intervalEl, startBtnDisabled, stopBtnDisabled, lastPlateEl,
                    bookingBox, starts, uploads, lookups, stopped >>

\* recognize has rejected: the catch block, then the finally block
CycleError(t) ==
    /\ t.pc = "ocr"
    /\ cycles' = Remove(cycles, t)
    /\ ArmIfAuto(t)
    /\ out' = Out("captureAndRead.catch", t.stale, {Log("OCR error")} \cup ArmCalls,
                  NoData, NoInput)
    /\ UNCHANGED << env, stream, live, worker, created, ready, autoCapture, intervalEl,
                    startBtnDisabled, stopBtnDisabled, lastPlateEl, bookingBox,
                    starts, uploads, lookups, stopped >>

(***************************************************************************)
(* The file input: createImageBitmap, doOCRFromImageBitmap,                *)
(* handleOCRResult.                                                        *)
(***************************************************************************)
\* fileInput change with a file chosen: createImageBitmap is awaited
FileChange ==
    /\ uploads' = Add(uploads, [pc |-> "bitmap", w |-> 0])
    /\ out' = Out("fileChange", FALSE, {Call("createImageBitmap")}, NoData, NoInput)
    /\ UNCHANGED << env, stream, live, timer, pending, delays, worker, created, ready,
                    autoCapture, intervalEl, startBtnDisabled, stopBtnDisabled, lastPlateEl,
                    bookingBox, starts, cycles, lookups, stopped >>

\* an await of the handler has rejected: its catch block
UploadError(t) ==
    /\ t.pc \in {"bitmap", "create", "load", "init", "ocr"}
    /\ uploads' = Remove(uploads, t)
    /\ out' = Out("fileChange.catch", FALSE, {Log("Error processing uploaded image")},
                  NoData, NoInput)
    /\ UNCHANGED << env, stream, live, timer, pending, delays, worker, created, ready,
                    autoCapture, intervalEl, startBtnDisabled, stopBtnDisabled, lastPlateEl,
                    bookingBox, starts, cycles, lookups, stopped >>

\* createImageBitmap has resolved: doOCRFromImageBitmap creates the worker
\* when this.worker is null, else draws the bitmap and calls recognize
UploadBitmap(t) ==
    /\ t.pc = "bitmap"
    /\ IF worker = 0
       THEN /\ uploads' = Replace(uploads, t, [t EXCEPT !.pc = "create"])
            /\ out' = Out("fileChange.bitmap", FALSE, {Call("createWorker")}, NoData, NoInput)
       ELSE /\ uploads' = Replace(uploads, t, [t EXCEPT !.pc = "ocr", !.w = 0])
            /\ out' = Out("fileChange.bitmap", FALSE, {Call("recognize")}, NoData, NoInput)
    /\ UNCHANGED << env, stream, live, timer, pending, delays, worker, created, ready,
                    autoCapture, intervalEl, startBtnDisabled, stopBtnDisabled, lastPlateEl,
                    bookingBox, starts, cycles, lookups, stopped >>

\* Tesseract.createWorker has resolved: this.worker is assigned and
\* loadLanguage called on it
UploadCreate(t) ==
    /\ t.pc = "create"
    /\ created' = created + 1
    /\ worker' = created + 1
    /\ uploads' = Replace(uploads, t, [t EXCEPT !.pc = "load"])
    /\ out' = Out("fileChange.create", FALSE, {Assign("worker"), Call("loadLanguage")}, NoData, NoInput)
    /\ UNCHANGED << env, stream, live, timer, pending, delays, ready, autoCapture, intervalEl,
                    startBtnDisabled, stopBtnDisabled, lastPlateEl, bookingBox,
                    starts, cycles, lookups, stopped >>

\* loadLanguage has resolved: initialize is called on this.worker
UploadLoad(t) ==
    /\ t.pc = "load"
    /\ uploads' = Replace(uploads, t, [t EXCEPT !.pc = "init", !.w = worker])
    /\ out' = Out("fileChange.load", FALSE, {Call("initialize")}, NoData, NoInput)
    /\ UNCHANGED << env, stream, live, timer, pending, delays, worker, created, ready,
                    autoCapture, intervalEl, startBtnDisabled, stopBtnDisabled, lastPlateEl,
                    bookingBox, starts, cycles, lookups, stopped >>

\* initialize has resolved: the bitmap is drawn and recognize called on
\* this.worker
UploadInit(t) ==
    /\ t.pc = "init"
    /\ ready' = ready \cup {t.w}
    /\ uploads' = Replace(uploads, t, [t EXCEPT !.pc = "ocr", !.w = 0])
    /\ out' = Out("fileChange.init", FALSE, {Call("recognize")}, NoData, NoInput)
    /\ UNCHANGED << env, stream, live, timer, pending, delays, worker, created, autoCapture, intervalEl,
                    startBtnDisabled, stopBtnDisabled, lastPlateEl, bookingBox,
                    starts, cycles, lookups, stopped >>

\* recognize has resolved with data: handleOCRResult(data)
UploadResult(t, data, conf, mock) ==
    /\ t.pc = "ocr"
    /\ uploads' = Remove(uploads, t)
    /\ HandleResult(data, conf, "upload", mock)
    /\ out' = Out("fileChange.result", FALSE, HandleCalls(data, conf, "upload", mock),
                  data, conf)
    /\ UNCHANGED << env, stream, live, timer, pending, delays, worker, created, ready,
                    autoCapture, intervalEl, startBtnDisabled, stopBtnDisabled, starts, cycles,
                    stopped >>

(***************************************************************************)
(* The complaints desk: its handlers.  A handler runs to completion: the   *)
(* store notifies its subscribers synchronously, and every subscriber of   *)
(* 'tickets' and of 'activeTicketId' renders the ticket list.              *)
(***************************************************************************)
\* getActiveTicket
getActiveTicket == tickets[FindIndex(tickets, activeTicketId)]

\* updateTicket(ticketId, updater), given the ticket the updater returns
updateTicket(list, ticketId, ticket) ==
    IF FindIndex(list, ticketId) # 0
    THEN [list EXCEPT ![FindIndex(list, ticketId)] = ticket]
    ELSE list

\* the store after setState('activeTicketId', ticketId) and the subscriber
\* it notifies, which renders the list: s is the active id, the listeners
\* on the list and the notifications counted so far
setStateActiveTicketId(s, list, ticketId) ==
    [active |-> ticketId,
     listeners |-> renderTicketsList(list, s.listeners),
     notified |-> s.notified + 1]

\* a click dispatched to the k listeners registered when it arrived: each
\* finds the item clicked and calls setState.  A listener added while the
\* click is dispatched is not run for it.
RECURSIVE ClickDispatch(_, _, _, _)
ClickDispatch(k, s, list, ticketId) ==
    IF k = 0 THEN s
    ELSE ClickDispatch(k - 1, setStateActiveTicketId(s, list, ticketId), list, ticketId)

\* the reject reason written by the blur listener of #reject-reason
WithRejectReason(ticket, value) ==
    [ticket EXCEPT !.outcome =
        [defined |-> TRUE,
         decision |-> IF ticket.outcome.defined THEN ticket.outcome.decision
                      ELSE ticket.status,
         rejectReason |-> Some(value)]]

\* the ticket written by updateTicketOutcome
WithDecision(ticket, decision) ==
    [ticket EXCEPT !.outcome = [@ EXCEPT !.defined = TRUE, !.decision = decision],
                   !.audit = Append(@, <<"Outcome updated:", decision>>)]

\* the ticket written by setTicketStatus
WithStatus(ticket, status) ==
    [ticket EXCEPT !.status = status,
                   !.audit = Append(@, <<"Status changed to", status>>)]

\* the tab selector changes to tab: switchTab(tab)
SwitchTab(tab) ==
    /\ tab # currentTab
    /\ currentTab' = tab
    /\ clickListeners' = IF tab = "desk" THEN renderTicketsList(tickets, clickListeners)
                         ELSE clickListeners
    /\ deskOut' = DeskOut("switchTab", 0)
    /\ UNCHANGED << tickets, activeTicketId, scanner >>

\* a valid complaint submitted: handleComplaintSubmission
SubmitComplaint(id) ==
    LET list == << createTicketFromComplaint(id) >> \o tickets
        added == renderTicketsList(list, clickListeners)
        set == setStateActiveTicketId(
                   [active |-> activeTicketId, listeners |-> added, notified |-> 0],
                   list, id)
    IN /\ tickets' = list
       /\ activeTicketId' = set.active
       /\ currentTab' = "desk"
       /\ clickListeners' = renderTicketsList(list, set.listeners)
       /\ deskOut' = DeskOut("handleComplaintSubmission", set.notified)
       /\ UNCHANGED scanner

\* a click on item i of the ticket list
TicketClick(i) ==
    LET s == ClickDispatch(clickListeners,
                 [active |-> activeTicketId, listeners |-> clickListeners, notified |-> 0],
                 tickets, getFilteredTickets(tickets)[i].id)
    IN /\ currentTab = "desk"
       /\ i \in 1..Len(getFilteredTickets(tickets))
       /\ activeTicketId' = s.active
       /\ clickListeners' = s.listeners
       /\ deskOut' = DeskOut("ticketClick", s.notified)
       /\ UNCHANGED << tickets, currentTab, scanner >>

\* the reject reason loses the focus with value typed into it
RejectReasonBlur(value) ==
    /\ currentTab = "desk"
    /\ FindIndex(tickets, activeTicketId) # 0
    /\ tickets' = updateTicket(tickets, activeTicketId,
                               WithRejectReason(getActiveTicket, value))
    /\ clickListeners' = renderTicketsList(tickets', clickListeners)
    /\ deskOut' = DeskOut("rejectReason.blur", 0)
    /\ UNCHANGED << activeTicketId, currentTab, scanner >>

\* the decision select changes to decision: updateTicketOutcome
UpdateTicketOutcome(decision) ==
    /\ currentTab = "desk"
    /\ FindIndex(tickets, activeTicketId) # 0
    /\ tickets' = updateTicket(tickets, activeTicketId,
                               WithDecision(getActiveTicket, decision))
    /\ clickListeners' = renderTicketsList(tickets', clickListeners)
    /\ deskOut' = DeskOut("updateTicketOutcome", 0)
    /\ UNCHANGED << activeTicketId, currentTab, scanner >>

\* a status button: setTicketStatus(status)
SetTicketStatus(status) ==
    /\ currentTab = "desk"
    /\ FindIndex(tickets, activeTicketId) # 0
    /\ IF status = "Rejected" /\ Falsy(OutcomeRejectReason(getActiveTicket))
       THEN /\ deskOut' = DeskOut("setTicketStatus.refused", 0)
            /\ UNCHANGED << tickets, clickListeners >>
       ELSE /\ tickets' = updateTicket(tickets, activeTicketId,
                                       WithStatus(getActiveTicket, status))
            /\ clickListeners' = renderTicketsList(tickets', clickListeners)
            /\ deskOut' = DeskOut("setTicketStatus", 0)
    /\ UNCHANGED << activeTicketId, currentTab, scanner >>

(***************************************************************************)
(* Specifications.  Each one lets the user and the environment raise a     *)
(* set of events in any order and keeps the model within its bounds: a     *)
(* step that would exceed one is not taken.                                *)
(***************************************************************************)
\* the desk within its bounds
DeskBounded ==
    /\ Len(tickets) <= MaxTickets
    /\ clickListeners <= MaxListeners

Bounded(maxStarts) ==
    /\ BagCardinality(starts) <= maxStarts
    /\ BagCardinality(cycles) <= MaxCycles
    /\ BagCardinality(uploads) <= MaxUploads
    /\ BagCardinality(lookups) <= MaxLookups
    /\ Cardinality(live) <= MaxStreams
    /\ created <= MaxWorkers

StartStep ==
    \E t \in BagToSet(starts) :
        \/ StartPerm(t)
        \/ StartList(t)
        \/ \E outcome \in GumOutcomes : StartGum(t, outcome)
        \/ \E ok \in BOOLEAN : StartPlay(t, ok)
        \/ \E ok \in BOOLEAN : StartCreate(t, ok)
        \/ \E ok \in BOOLEAN : StartLoad(t, ok)
        \/ \E ok \in BOOLEAN : StartInit(t, ok)

TimerStep == \E id \in pending : TimerFire(id)

CycleStep ==
    \E t \in BagToSet(cycles) :
        \/ \E data \in ScanData, conf \in ScanConfidenceValues, mock \in BOOLEAN :
              CycleResult(t, data, conf, mock)
        \/ CycleError(t)

UploadStepOn(results, confs) ==
    \E t \in BagToSet(uploads) :
        \/ UploadError(t)
        \/ UploadBitmap(t)
        \/ UploadCreate(t)
        \/ UploadLoad(t)
        \/ UploadInit(t)
        \/ \E data \in results, conf \in confs, mock \in BOOLEAN :
              UploadResult(t, data, conf, mock)

LookupStep ==
    \E t \in BagToSet(lookups) :
        \/ \E outcome \in FetchOutcomes : LookupFetch(t, outcome)
        \/ \E ok \in BOOLEAN : LookupJson(t, ok)

\* The camera, the scan timer and the capture cycles: every event of the
\* scanner but the file input, one startCamera call at a time.
Next ==
    \/ StartClick /\ Bounded(MaxStarts)'
    \/ StopClick
    \/ CameraSelectChange /\ Bounded(MaxStarts)'
    \/ IntervalChange
    \/ AutoCaptureChange
    \/ StartStep /\ Bounded(MaxStarts)'
    \/ TimerStep /\ Bounded(MaxStarts)'
    \/ CycleStep /\ Bounded(MaxStarts)'
    \/ LookupStep

Spec == Init /\ [][Next]_vars

\* The same events under the scheduling of the event loop: an armed timer
\* fires and a pending recognize settles.
Fairness ==
    /\ WF_vars(TimerStep /\ Bounded(MaxStarts)')
    /\ WF_vars(CycleStep /\ Bounded(MaxStarts)')

SpecFair == Spec /\ Fairness

\* The scan timer under every value of the interval input.
NextTimer ==
    \/ StartClick /\ Bounded(MaxStarts)'
    \/ StopClick
    \/ \E value \in IntervalValues : IntervalChangeTo(value)
    \/ AutoCaptureChange
    \/ StartStep /\ Bounded(MaxStarts)'
    \/ TimerStep /\ Bounded(MaxStarts)'
    \/ CycleStep /\ Bounded(MaxStarts)'

SpecTimer == Init /\ [][NextTimer]_vars

\* The start and stop of the camera, with startCamera calls overlapping.
NextStart ==
    \/ StartClick /\ Bounded(MaxOverlap)'
    \/ StopClick
    \/ CameraSelectChange /\ Bounded(MaxOverlap)'
    \/ AutoCaptureChange
    \/ StartStep /\ Bounded(MaxOverlap)'

SpecStart == Init /\ [][NextStart]_vars

\* The file input next to a camera start: the two users of the OCR worker.
NextUpload ==
    \/ StartClick /\ Bounded(MaxStarts)'
    \/ StartStep /\ Bounded(MaxStarts)'
    \/ FileChange /\ Bounded(MaxStarts)'
    \/ UploadStepOn(ScanData, ScanConfidenceValues) /\ Bounded(MaxStarts)'
    \/ LookupStep

SpecUpload == Init /\ [][NextUpload]_vars

\* The file input alone, over every OCR result and every value of the
\* confidence input of the model.
NextOCR ==
    \/ FileChange /\ Bounded(MaxStarts)'
    \/ UploadStepOn(OCRData, ConfidenceValues) /\ Bounded(MaxStarts)'
    \/ LookupStep

SpecOCR == Init /\ [][NextOCR]_vars

\* The lookup button and the lookups it starts.
NextLookup ==
    \/ \E text \in ManualTexts, mock \in BOOLEAN :
           LookupClick(text, mock) /\ Bounded(MaxStarts)'
    \/ LookupStep

SpecLookup == Init /\ [][NextLookup]_vars

\* two plates typed one after the other
RaceTexts ==
    { <<"A","B","1","2","C","D","E">>,
      <<"z","z","9","9","\t","z","z","z">> }

\* Lookups of the service (the mock off) started while another is in flight.
NextRace ==
    \/ \E text \in RaceTexts :
           LookupClick(text, FALSE) /\ BagCardinality(lookups') <= MaxRace
    \/ LookupStep

SpecRace == Init /\ [][NextRace]_vars

\* The plate normaliser on its own.
NextNorm ==
    \/ \E text \in NormTexts : RunTest(text)
    \/ RunTestAgain

SpecNorm == Init /\ [][NextNorm]_vars

\* The complaints desk: the tabs, complaints, the ticket list and the
\* outcome form of the active ticket.
NextDesk ==
    \/ \E tab \in Tabs : SwitchTab(tab) /\ DeskBounded'
    \/ \E id \in TicketIds : SubmitComplaint(id) /\ DeskBounded'
    \/ \E i \in 1..MaxTickets : TicketClick(i) /\ DeskBounded'
    \/ \E value \in ReasonValues : RejectReasonBlur(value) /\ DeskBounded'
    \/ \E decision \in Statuses : UpdateTicketOutcome(decision) /\ DeskBounded'
    \/ \E status \in Statuses : SetTicketStatus(status) /\ DeskBounded'

SpecDesk == Init /\ [][NextDesk]_vars

(***************************************************************************)
(* Properties.                                                             *)
(***************************************************************************)
\* the steps that resume a capture cycle or the lookup it started
CycleOps == {"captureAndRead.result", "captureAndRead.catch"}

CycleLookupOps ==
    {"lookupByReg.fetch", "lookupByReg.render", "lookupByReg.mockRender",
     "lookupByReg.catch"}

\* the steps that end a startCamera call without a running camera
StartFailOps == {"startCamera.insecure", "startCamera.unsupported", "startCamera.catch"}

StartOps ==
    StartFailOps \cup {"startCamera.perm", "startCamera.list", "startCamera.gum",
                       "startCamera.play", "startCamera.create", "startCamera.load",
                       "startCamera.done"}

Rearmed == Call("scheduleScan") \in out.calls

\* the step wrote to the display: the last-plate text, the booking box or the log
DisplayUpdated == \E c \in out.calls : c[1] \in {"assign", "log"} /\ c[2] # "worker"

\* C1: once stopCamera has run, the continuation of a capture cycle that was
\* in flight (its recognize result, its error, the lookup it started)
\* neither re-arms the scan timer nor writes to the display.
C1_StoppedCycleIsSilent ==
    (out.op \in CycleOps \cup CycleLookupOps /\ out.mark) =>
        ~Rearmed /\ ~DisplayUpdated

\* a lookup that a capture cycle started is suspended
CycleLookupInFlight == \E l \in BagToSet(lookups) : l.src = "cycle"

\* C2: capture cycles are strictly sequential: at most one is in flight,
\* and while one is, or the lookup it started is, no scan timer is armed.
C2_CyclesSequential ==
    /\ BagCardinality(cycles) <= 1
    /\ (cycles # EmptyBag \/ CycleLookupInFlight) => pending = {}

\* C3: at most one scan timer is pending, and it is the one this.timer
\* names: arming cancels the timer that was pending.
C3_OneTimerPending ==
    /\ Cardinality(pending) <= 1
    /\ pending \subseteq {timer}

\* scheduleScan has just run while a timer was pending, and one timer is left
C3_Witness ==
    /\ Rearmed
    /\ Cancelled \in out.calls
    /\ Cardinality(pending) = 1

\* C4: at most one camera stream is live, and it is the one this.stream
\* names: no stream is acquired while another is still held.
C4_OneLiveStream ==
    /\ Cardinality(live) <= 1
    /\ live \subseteq {stream}

\* C5: a startCamera call made while the scanner is Starting or Running
\* requests no camera stream.
C5_StartOnlyFromIdle ==
    (out.op \in StartOps /\ out.mark) => Call("getUserMedia") \notin out.calls

\* C6: after stopCamera has run on a Starting or Running scanner the
\* stream is released and no timer is pending, and a startCamera call
\* still in progress acquires no stream and arms no timer afterwards.
C6_StopReachesIdle ==
    /\ out.op = "stopCamera" => stream = 0 /\ pending = {}
    /\ (stopped /\ out.op \in StartOps) =>
           Assign("stream") \notin out.calls /\ ~Rearmed

\* C7: a startCamera call that fails is reported with an alert, holds no
\* stream and arms no timer when it ends; in an insecure or unsupported
\* context no start gets as far as requesting a stream.
C7_FailedStartIsIdle ==
    /\ out.op \in StartFailOps =>
           /\ \E c \in out.calls : c[1] = "alert"
           /\ stream = 0
           /\ ~Rearmed
    /\ (~secure \/ ~hasMedia) => \A t \in BagToSet(starts) : t.pc = "perm"

\* a capture cycle has just ended on a Running scanner with auto-capture on
CycleEndedRunning == out.op \in CycleOps /\ autoCapture /\ Running

ConfiguredThreshold(conf) == IF conf.kind = "number" THEN conf.n ELSE 45

\* C9: handling an OCR result starts a booking lookup exactly when
\* normalisePlate finds a plate and the reported confidence is at least
\* the configured threshold.
C9_LookupIffConfident ==
    out.op \in {"captureAndRead.result", "fileChange.result"} =>
        (Call("lookupByReg") \in out.calls <=>
            /\ plates[out.data.text] # NoPlate
            /\ out.data.confidence >= ConfiguredThreshold(out.conf))

\* C10: at most one OCR worker is ever created, and recognize is only
\* called on a worker whose initialize has completed.
C10_OneReadyWorker ==
    /\ created <= 1
    /\ Call("recognize") \in out.calls => worker \in ready

\* C11: a change of the interval input leaves every pending timer pending
\* with the delay it was armed with; the new interval is used by the
\* armings that follow.
C11_IntervalNotRetroactive ==
    [][out'.op = "intervalChange" =>
          \A id \in pending : id \in pending' /\ delays'[id] = delays[id]]_vars

\* C12: every pending timer was armed with a delay of at least 300 ms, and
\* a timer armed while the interval input holds a number of at least 300
\* has that number as its delay.
C12_DelayAtLeast300 ==
    /\ \A id \in pending : delays[id] >= 300
    /\ (Rearmed /\ intervalEl.kind = "number" /\ intervalEl.n >= 300) =>
           delays[timer] = intervalEl.n
\* C13: stopCamera on a scanner that holds no stream and has no timer pending
\* leaves both absent and releases nothing, and stopping twice in a row
\* leaves the fields as stopping once does.
C13_StopIdempotent ==
    /\ [](stopCamera(stopCamera(Fields)) = stopCamera(Fields))
    /\ [][(out'.op = "stopCamera" /\ stream = 0 /\ pending = {}) =>
             /\ stream' = 0 /\ timer' = 0 /\ pending' = {}
             /\ live' = live
             /\ Fields' = stopCamera(Fields')]_vars

\* a stop that found no stream to release and no timer to clear
C13_Witness ==
    /\ out.op = "stopCamera"
    /\ Call("track.stop") \notin out.calls
    /\ Call("clearTimeout") \notin out.calls
    /\ stream = 0 /\ pending = {}

\* the text with every letter upper-cased and every white space removed
UpperNoSpace(text) == SelectSeq(ToUpperCase(text), NotWhiteSpace)

\* C14: a click on the lookup button with a text that is not empty after
\* trimming calls lookupByReg once, with the text upper-cased and all white
\* space removed, whatever its shape; with a text that is empty after
\* trimming it calls nothing and changes nothing.
C14_ManualLookup ==
    [][/\ out'.op = "lookupClick.return" =>
             /\ Trim(out'.data.text) = <<>>
             /\ UNCHANGED << env, stream, live, timer, pending, delays, worker,
                             created, ready, autoCapture, intervalEl,
                             startBtnDisabled, stopBtnDisabled, lastPlateEl,
                             bookingBox, starts, cycles, uploads, lookups, stopped >>
       /\ out'.op = "lookupClick" =>
             /\ Trim(out'.data.text) # <<>>
             /\ Call("lookupByReg") \in out'.calls
             /\ \/ /\ BagCardinality(lookups') = BagCardinality(lookups) + 1
                   /\ \E t \in BagToSet(lookups') :
                         /\ t.reg = UpperNoSpace(out'.data.text)
                         /\ t.src = "manual"
                         /\ Copies(lookups', t) = Copies(lookups, t) + 1
                   /\ bookingBox' = bookingBox
                \/ /\ lookups' = lookups
                   /\ Call("mockFetch") \in out'.calls
                   /\ bookingBox' = NotFoundBox(UpperNoSpace(out'.data.text))]_vars

\* a text with inner and outer white space that is no plate was looked up
C14_Witness ==
    /\ out.op = "lookupClick"
    /\ out.data.text = <<" ","n","o"," ","p","l","a","t","e","!"," "," ">>
    /\ \E t \in BagToSet(lookups) : t.reg = <<"N","O","P","L","A","T","E","!">>

\* the plate a step asked lookupByReg for: a step of lookupByReg carries it,
\* the lookup button takes it from the text typed, a capture cycle or an
\* upload from the text read
AskedPlate(o) ==
    IF o.op \in CycleLookupOps THEN o.data.text
    ELSE IF o.op = "lookupClick" THEN UpperNoSpace(o.data.text)
    ELSE plates[o.data.text]

FetchFailed(o) == Settled("non2xx") \in o.calls \/ Settled("failed") \in o.calls

\* C15: when the fetch of a lookup settles with a response that is not 2xx
\* or with a transport failure, the booking box shows "No booking found" for
\* the plate asked for and no booking; the lookup ends in its catch block,
\* and the stream and the timer are left as they were.
C15_FailureIsNotFound ==
    [][FetchFailed(out') =>
         /\ bookingBox' = [kind |-> "notfound", reg |-> AskedPlate(out')]
         /\ out'.op = "lookupByReg.catch" =>
               /\ BagCardinality(lookups') = BagCardinality(lookups) - 1
               /\ UNCHANGED << stream, live, timer, pending, delays >>
         /\ out'.op # "lookupByReg.catch" => lookups' = lookups]_vars

\* a transport failure reported while the camera runs with a timer pending
C15_Witness ==
    /\ out.op = "lookupByReg.catch"
    /\ Settled("failed") \in out.calls
    /\ stream # 0 /\ pending # {}
    /\ bookingBox.kind = "notfound"

\* the plates the mock knows, as the allow-list names them
MockAllowList ==
    { <<"A","B","1","2","C","D","E">>, <<"R","E","Z","1","2","3">>,
      <<"S","T","A","R","0","0","1">>, <<"G","F","1","2","A","B","C">> }

\* C16: with the mock on, a lookup of a plate of the allow-list (AB12CDE,
\* REZ123, STAR001, GF12ABC) is answered with a booking whose reg is the plate
\* asked for, and a lookup of any other plate with "No booking found" for
\* it; the answer depends on the plate alone.
C16_MockDeterministic ==
    [][/\ Call("mockFetch") \in out'.calls =>
             IF AskedPlate(out') \in MockAllowList
             THEN /\ ~FetchFailed(out')
                  /\ \E t \in BagToSet(lookups') :
                        /\ t.pc = "mockjson" /\ t.reg = AskedPlate(out')
                        /\ Copies(lookups', t) = Copies(lookups, t) + 1
             ELSE /\ bookingBox' = [kind |-> "notfound", reg |-> AskedPlate(out')]
                  /\ lookups' = lookups
       /\ out'.op = "lookupByReg.mockRender" =>
             /\ out'.data.text \in MockAllowList
             /\ bookingBox' = [kind |-> "found", reg |-> out'.data.text]
             /\ \E t \in BagToSet(lookups) :
                   /\ t.pc = "mockjson" /\ t.reg = out'.data.text
                   /\ lookups' = Remove(lookups, t)]_vars

\* the mock's booking for GF12ABC is shown
C16_Witness ==
    /\ out.op = "lookupByReg.mockRender"
    /\ bookingBox = [kind |-> "found", reg |-> <<"G","F","1","2","A","B","C">>]

\* the current format: two letters, two digits, an optional space, three letters
CurrentShape == [l1 |-> 2, h1 |-> 2, l2 |-> 2, h2 |-> 2, l3 |-> 3, h3 |-> 3]

\* the cherished formats: one to three letters, one to four digits, an
\* optional space, one to three letters
CherishedShape == [l1 |-> 1, h1 |-> 3, l2 |-> 1, h2 |-> 4, l3 |-> 1, h3 |-> 3]

\* w is letters, digits, at most one space and letters, as many as shape sh asks
IsShape(w, sh) ==
    LET a == Run(w, 1, LetterChars)
        b == Run(w, a + 1, DigitChars)
        sp == IF a + b < Len(w) /\ w[a + b + 1] = " " THEN 1 ELSE 0
        c == Run(w, a + b + sp + 1, LetterChars)
    IN  /\ a \in sh.l1..sh.h1
        /\ b \in sh.l2..sh.h2
        /\ c \in sh.l3..sh.h3
        /\ a + b + sp + c = Len(w)

\* where shape sh occurs in the cleaned text t between two word boundaries
Occurrences(t, sh) ==
    {ij \in (1..Len(t)) \X (1..Len(t)) :
        /\ ij[1] <= ij[2]
        /\ Boundary(t, ij[1]) /\ Boundary(t, ij[2] + 1)
        /\ IsShape(SubSeq(t, ij[1], ij[2]), sh)}

\* the texts of the occurrences, without their space
Marks(t, occ) == {SelectSeq(SubSeq(t, ij[1], ij[2]), NotWhiteSpace) : ij \in occ}

BadText == <<"b","a","d"," ","t","e","x","t"," ","n","o"," ","p","l","a","t","e">>

\* C17: normalisePlate returns null exactly when the text is null or empty
\* or its cleaned form has no occurrence of the current or of the cherished
\* shape; null, "" and "bad text no plate" give null.
C17_NullIffNoMatch ==
    out.op = "runTests" =>
        /\ tested.plate = NoPlate <=>
               \/ tested.text \in {NullText, <<>>}
               \/ /\ Occurrences(CleanText(tested.text), CurrentShape) = {}
                  /\ Occurrences(CleanText(tested.text), CherishedShape) = {}
        /\ tested.text \in {NullText, <<>>, BadText} => tested.plate = NoPlate

\* a text of words without a plate was tested
C17_Witness ==
    /\ out.op = "runTests" /\ tested.text = BadText /\ tested.plate = NoPlate

\* a word ends or begins at position i of the text as written: the text's
\* end, a space or a newline
Gap(text, i) == i < 1 \/ i > Len(text) \/ text[i] \in {" ", "\n"}

\* where a current-format mark stands in the text as written, in either
\* case, as a word or two of its own; withO: the letter O counts as a letter
WrittenMarks(text, withO) ==
    {ij \in (1..Len(text)) \X (1..Len(text)) :
        /\ ij[1] <= ij[2]
        /\ Gap(text, ij[1] - 1) /\ Gap(text, ij[2] + 1)
        /\ IsShape(ToUpperCase(SubSeq(text, ij[1], ij[2])), CurrentShape)
        /\ withO \/ \A k \in ij[1]..ij[2] : text[k] \notin {"o", "O"}}

C19_ORewritten ==
    out.op = "runTests" =>
        /\ tested.text = <<"0","O","1","2"," ","C","D","E">> =>
               tested.plate = <<"0","0","1","2","C","D","E">>
        /\ (tested.text # NullText /\ WrittenMarks(tested.text, TRUE) = {<<1, Len(tested.text)>>}) =>
               tested.plate = SelectSeq(CleanText(tested.text), NotWhiteSpace)

\* C20: when the cleaned text has an occurrence of the current format the
\* result is one of those occurrences, also when a cherished mark stands
\* before them; a cherished mark is returned only when there is none.
C20_CurrentFormatFirst ==
    (out.op = "runTests" /\ tested.text # NullText) =>
        /\ Occurrences(CleanText(tested.text), CurrentShape) # {} =>
               tested.plate \in Marks(CleanText(tested.text),
                                      Occurrences(CleanText(tested.text), CurrentShape))
        /\ (/\ Occurrences(CleanText(tested.text), CurrentShape) = {}
            /\ Occurrences(CleanText(tested.text), CherishedShape) # {}) =>
               tested.plate \in Marks(CleanText(tested.text),
                                      Occurrences(CleanText(tested.text), CherishedShape))

\* a current-format mark was returned from behind a cherished mark of seven
\* characters
C20_Witness ==
    /\ out.op = "runTests"
    /\ tested.text = <<"A","1","2","3"," ","B","C","D"," ","A","B","1","2"," ","C","D","E">>
    /\ tested.plate = <<"A","B","1","2","C","D","E">>

\* the occurrences of the first shape that occurs in the cleaned text t
FirstShapeOccurrences(t) ==
    IF Occurrences(t, CurrentShape) # {} THEN Occurrences(t, CurrentShape)
    ELSE Occurrences(t, CherishedShape)

\* how far from seven characters the occurrence ij is, without its space
FromSeven(t, ij) ==
    IF Len(SelectSeq(SubSeq(t, ij[1], ij[2]), NotWhiteSpace)) >= 7
    THEN Len(SelectSeq(SubSeq(t, ij[1], ij[2]), NotWhiteSpace)) - 7
    ELSE 7 - Len(SelectSeq(SubSeq(t, ij[1], ij[2]), NotWhiteSpace))

\* C21: the result is, of the occurrences of the first shape that occurs,
\* one whose length without its space is closest to 7, and of those equally
\* close the one that stands first in the text.
C21_ClosestToSevenEarliest ==
    (/\ out.op = "runTests"
     /\ tested.text # NullText
     /\ FirstShapeOccurrences(CleanText(tested.text)) # {}) =>
        \E ij \in FirstShapeOccurrences(CleanText(tested.text)) :
            /\ tested.plate =
                   SelectSeq(SubSeq(CleanText(tested.text), ij[1], ij[2]), NotWhiteSpace)
            /\ \A kl \in FirstShapeOccurrences(CleanText(tested.text)) :
                   \/ FromSeven(CleanText(tested.text), ij)
                         < FromSeven(CleanText(tested.text), kl)
                   \/ /\ FromSeven(CleanText(tested.text), ij)
                            = FromSeven(CleanText(tested.text), kl)
                      /\ ij[1] <= kl[1]

\* the second of two cherished marks was returned, being of seven characters
C21_Witness ==
    /\ out.op = "runTests"
    /\ tested.text = <<"A","1"," ","R","E","Z"," ","A","1","2","3"," ","B","C","D">>
    /\ tested.plate = <<"A","1","2","3","B","C","D">>

\* C22: normalisePlate applied to a plate it returned returns that plate.
C22_Idempotent ==
    [][out'.op = "runTests.again" => tested'.plate = tested.plate]_vars

\* a cherished plate was normalised again
C22_Witness ==
    /\ out.op = "runTests.again"
    /\ tested.text = <<"A","1","R","E","Z">>
    /\ tested.plate = <<"A","1","R","E","Z">>

\* C23: a plate returned by normalisePlate is made of the upper-case letters
\* other than O and of digits only: no white space, no lower case, no O.
C23_Canonical ==
    (out.op \in {"runTests", "runTests.again"} /\ tested.plate # NoPlate) =>
        \A i \in 1..Len(tested.plate) :
            tested.plate[i] \in (LetterChars \ {"O"}) \cup DigitChars

\* a plate was returned for a text written with a letter O
C23_Witness ==
    /\ out.op = "runTests"
    /\ tested.text = <<"A","O","1","2"," ","C","D","E">>
    /\ tested.plate = <<"A","0","1","2","C","D","E">>

\* C24: a text that is nothing but one to three letters, one to four digits,
\* an optional space and one to three letters, without the letter O, is
\* normalised to itself in upper case without the space.
C24_CherishedAccepted ==
    (/\ out.op = "runTests"
     /\ tested.text # NullText
     /\ IsShape(ToUpperCase(tested.text), CherishedShape)
     /\ \A i \in 1..Len(tested.text) : tested.text[i] \notin {"o", "O"}) =>
        tested.plate = SelectSeq(ToUpperCase(tested.text), NotWhiteSpace)

\* the longest cherished mark was returned
C24_Witness ==
    /\ out.op = "runTests"
    /\ tested.text = <<"A","B","C","1","2","3","4"," ","X","Y","Z">>
    /\ tested.plate = <<"A","B","C","1","2","3","4","X","Y","Z">>

\* C25: normalisePlate("STAR 1") returns "STAR1", as the self test expects.
C25_LettersThenDigits ==
    (out.op = "runTests" /\ tested.text = <<"S","T","A","R"," ","1">>) =>
        tested.plate = <<"S","T","A","R","1">>

\* C26: while the scanner is idle, with no stream held and no start in
\* progress, no scan timer is pending.
C26_IdleHasNoTimer == Idle => pending = {}

\* C27: while a scan timer is pending auto-capture is on: clearing the box
\* cancels the pending timer, and no step arms one while the box is clear.
C27_TimerOnlyWithAutoCapture ==
    /\ [](pending # {} => autoCapture)
    /\ [][(~autoCapture /\ ~autoCapture') => pending' = {}]_vars

\* the box was cleared with a capture cycle in flight and its timer pending
C27_Witness ==
    /\ out.op = "autoCaptureChange"
    /\ Cancelled \in out.calls
    /\ ~autoCapture /\ pending = {}
    /\ stream # 0 /\ cycles # EmptyBag

\* C28: once no lookup is in flight the booking box shows the result of the
\* lookup started last (the plate the last-plate text shows): the result of a
\* lookup started earlier does not replace it.
C28_LatestLookupShown ==
    (lookups = EmptyBag /\ bookingBox.kind \in {"found", "notfound"}) =>
        FormatPlate(bookingBox.reg) = lastPlateEl

\* C29: in the ticket store a ticket whose status is 'Rejected' has a
\* non-empty reject reason, whatever edits followed its rejection.
C29_RejectedHasReason ==
    \A i \in 1..Len(tickets) :
        tickets[i].status = "Rejected" => ~Falsy(OutcomeRejectReason(tickets[i]))

\* C30: however often the ticket list was rendered, a click on one of its
\* items notifies the subscribers of activeTicketId exactly once.
C30_ClickNotifiesOnce ==
    deskOut.op = "ticketClick" => deskOut.notified = 1

====
